---- MODULE Spec2Model ----
(***************************************************************************)
(* Verification model of the openclaw-sec validation core:                 *)
(*   - AsyncQueue (src/core/async-queue.ts): the batched write queue       *)
(*   - DatabaseManager (src/core/database-manager.ts): rate_limits and     *)
(*     user_reputation tables with their upsert / get operations           *)
(*   - the severity scorer, the rate limiter / reputation tracker and the  *)
(*     action engine, whose behaviour is fixed by the design specification *)
(* Each subsystem has its own specification (SpecQueue, SpecStore,         *)
(* SpecScorer, SpecEngine); the variables of the other subsystems stay at  *)
(* their initial values.                                                   *)
(***************************************************************************)
EXTENDS Integers, Sequences, FiniteSets, TLC

VARIABLES
    \* ---- AsyncQueue ----
    batchSize,      \* options.batchSize
    maxQueueSize,   \* options.maxQueueSize
    queue,          \* this.queue: pending tasks, oldest first
    processing,     \* this.processing
    timer,          \* this.timer !== null
    inflight,       \* tasks of the current batch whose promise is unsettled
    batchBy,        \* caller of the processBatch that started the current batch
    started,        \* every task ever invoked, in invocation order
    finished,       \* tasks whose promise has settled
    dropped,        \* tasks removed by the overflow policy
    nextTask,       \* id of the next task handed to enqueue
    flushPc,        \* position of the flush() caller
    flushSnap,      \* tasks enqueued before the current flush() call
    io,             \* tasks whose promise settles only after an I/O event
    failed,         \* tasks whose promise has rejected
    propagated,     \* a rejection has escaped from a processBatch() promise
    batchCount,     \* number of onBatch() calls, i.e. of batches started
    stopSnap,       \* tasks pending when stop() was called
    flushAfterStop, \* the current flush() call was made after stop()
    badBatch,       \* options.onBatch throws on its call of this number; 0: never
    throwing,       \* tasks that throw when invoked instead of returning a promise
    threw,          \* tasks that were invoked and threw
    orphans,        \* unsettled tasks of a batch that processBatch no longer awaits
    lost,           \* tasks taken off the queue by splice and never invoked
    \* ---- DatabaseManager ----
    rate_limits,    \* rows of table rate_limits
    user_reputation,\* rows of table user_reputation
    lastRL,         \* per user: the argument of the latest upsertRateLimit
    lastRep,        \* per user: the argument of the latest upsertUserReputation
    security_events,    \* rows of table security_events
    notifications_log,  \* rows of table notifications_log
    eventSeq,       \* sqlite_sequence of security_events: the largest id it held
    logSeq,         \* sqlite_sequence of notifications_log
    issued,         \* the ids insertEvent has returned
    opNo,           \* calls made on the two tables so far
    lastOp,         \* the latest of these calls: its arguments and its outcome
    \* ---- severity scorer ----
    findingsIn,     \* the findings list handed to the scorer
    scoreOut,       \* the overall severity it returned, or "none"
    \* ---- detection dispatcher ----
    det,            \* per detector: its status and the findings it has produced
    callState,      \* the dispatch call: "idle", "running" or "returned"
    collected,      \* the findings the dispatch call returned
    callNo,         \* number of dispatch calls started so far
    stale,          \* scans abandoned by an earlier call and still working
    arrivedLate,    \* findings that scans delivered after their call returned
    \* ---- detectors ----
    scanModule,     \* the detector last called, or "none"
    scanEnabled,    \* its config.enabled
    scanInput,      \* the value it was handed as text
    scanResult,     \* how the returned promise settled, and with what
    \* ---- ConfigManager ----
    cfgVia,         \* the method last called: "validateConfig", "load" or "none"
    cfgResult,      \* the configuration it validated
    cfgOutcome,     \* "accepted" when it returned, "rejected" when it threw
    \* ---- validation pipeline ----
    owner_ids,      \* config.owner_ids
    actions,        \* config.actions: severity -> action
    now,            \* the clock
    lock,           \* per user: the validation inside the critical section, or 0
    pc,             \* per validation slot: "idle", "read" or "write"
    cur,            \* per validation slot: the request being validated
    loc,            \* per validation slot: the records it read
    lastRes,        \* the latest completed validation
    nreq,           \* validations begun so far
    done,           \* per user: validations completed
    solo,           \* per user: the records of a run with that user alone
    opUser,         \* the user of the latest operation that wrote to the store
    blockset        \* users an administrator has blocklisted

qvars == <<batchSize, maxQueueSize, queue, processing, timer, inflight, batchBy,
           started, finished, dropped, nextTask, flushPc, flushSnap, io, failed,
           propagated, batchCount, stopSnap, flushAfterStop, badBatch, throwing,
           threw, orphans, lost>>

dbvars == <<rate_limits, user_reputation>>

svars == <<lastRL, lastRep>>

tvars == <<security_events, notifications_log, eventSeq, logSeq, issued, opNo,
           lastOp>>

cvars == <<findingsIn, scoreOut>>

dvars == <<det, callState, collected, callNo, stale, arrivedLate>>

nvars == <<scanModule, scanEnabled, scanInput, scanResult>>

gvars == <<cfgVia, cfgResult, cfgOutcome>>

evars == <<owner_ids, actions, now, lock, pc, cur, loc, lastRes, nreq, done,
           solo, opUser, blockset>>

vars == <<qvars, dbvars, svars, tvars, cvars, dvars, nvars, gvars, evars>>

\* ---------------------------------------------------------------- bounds
MaxBatch == 2
MaxCap == 2
MaxTasks == 4
MaxAwaiting == 1    \* tasks, counted from the first, that may await I/O
MaxThrowing == 1    \* tasks of one run that throw when invoked
MaxBadBatch == 1    \* last call of onBatch that may be the one to throw
MaxFindings == 3    \* longest findings list handed to the scorer
MaxDetectors == 3   \* detectors known to the dispatcher
MaxCalls == 3       \* dispatch calls made one after the other in one run
MaxRacing == 1      \* detectors, counted from the first, enabled in such a run
MaxWords == 3       \* longest text, in words, handed to a detector
MaxOps == 4         \* calls made on security_events and notifications_log
MaxKeep == 1        \* largest daysToKeep handed to deleteOldEvents
NumSlots == 2       \* validations that can be in progress at once
MaxReqs == 3        \* validations begun in one run
MaxNotifyReqs == 2  \* validations begun in one run of the engine with its queue
MaxConcurrent == 3  \* validations begun in one run of concurrent validations
MaxConcurrentTime == 1  \* last instant of the clock in such a run
MaxTime == 2        \* last instant of the clock
WindowLen == 1      \* length of the rate-limit window
MaxPerWindow == 1   \* rate_limit.max_requests_per_minute, scaled down
LockoutThreshold == 1   \* rate_limit.lockout_threshold, scaled down
LockoutDuration == 2    \* the configured lockout duration
TrustNeutral == 50  \* the neutral baseline of the trust score
TrustRecover == 20  \* recovery step of the trust score
TrustPenalty == 30  \* penalty unit of the trust score

\* ---------------------------------------------------------------- constants
TrustMin == 0       \* trust scores range over 0-100
TrustMax == 100     \* user_reputation.trust_score REAL DEFAULT 100.0

\* ---------------------------------------------------------------- helpers
Range(s) == { s[i] : i \in 1..Len(s) }

Min(a, b) == IF a <= b THEN a ELSE b

\* ================================================================ AsyncQueue

\* enqueue, lines 829-834, with the overflow policy inverted: on overflow the
\* newest pending task is discarded instead of the oldest
PushDropNewest(q, t) ==
    IF Len(q) >= maxQueueSize THEN Append(SubSeq(q, 1, Len(q) - 1), t)
    ELSE Append(q, t)

\* enqueue with unshift in place of push: the new task goes to the head
PushFront(q, t) ==
    IF Len(q) >= maxQueueSize THEN <<t>> \o Tail(q) ELSE <<t>> \o q

\* enqueue: if (queue.length >= maxQueueSize) queue.shift(); queue.push(task)
PushDropOldest(q, t) ==
    IF Len(q) >= maxQueueSize THEN Append(Tail(q), t) ELSE Append(q, t)

\* the task, if any, that enqueue removes with queue.shift()
Shifted(q) == IF Len(q) >= maxQueueSize /\ Len(q) > 0 THEN {Head(q)} ELSE {}

\* splice(0) in place of splice(0, batchSize): the batch is the whole queue
BatchOfAll(q) == q

\* slice in place of splice: the batch is copied and stays in the queue
RestOfSlice(q) == q

\* batch = this.queue.splice(0, this.options.batchSize)
BatchOf(q) == SubSeq(q, 1, Min(batchSize, Len(q)))

RestOf(q) == SubSeq(q, Min(batchSize, Len(q)) + 1, Len(q))

\* this call of options.onBatch() throws
OnBatchThrows == batchCount + 1 = badBatch

\* the position in batch b of the first task that throws when invoked, 0 when
\* every task returns a promise
FirstThrowing(b) ==
    LET bad == { i \in 1..Len(b) : b[i] \in throwing }
    IN  IF bad = {} THEN 0 ELSE CHOOSE i \in bad : \A j \in bad : i <= j

\* processBatch called on queue q by `by`, up to its first await: it returns at
\* once when a batch is in flight or q is empty; otherwise it sets the flag,
\* splices the batch off the head, calls onBatch and invokes every task of the
\* batch in order. A throw of onBatch leaves the function before the try block:
\* no task is invoked and the flag stays set. A throw of a task ends batch.map:
\* the tasks before it are running, those after it are not invoked, and the
\* finally block clears the flag. In both cases the promise of processBatch
\* rejects.
ProcessBatch(q, by) ==
    IF processing \/ Len(q) = 0
    THEN /\ queue' = q
         /\ UNCHANGED <<processing, inflight, batchBy, started, batchCount, threw,
                        orphans, lost>>
    ELSE /\ queue' = RestOf(q)
         /\ batchCount' = batchCount + 1
         /\ IF OnBatchThrows
            THEN /\ processing' = TRUE
                 /\ lost' = lost \cup Range(BatchOf(q))
                 /\ UNCHANGED <<inflight, batchBy, started, threw, orphans>>
            ELSE LET b == BatchOf(q)
                     k == FirstThrowing(b)
                 IN  IF k = 0
                     THEN /\ processing' = TRUE
                          /\ started' = started \o b
                          /\ inflight' = Range(b)
                          /\ batchBy' = by
                          /\ UNCHANGED <<threw, orphans, lost>>
                     ELSE /\ processing' = FALSE
                          /\ started' = started \o SubSeq(b, 1, k)
                          /\ threw' = threw \cup {b[k]}
                          /\ orphans' = orphans \cup Range(SubSeq(b, 1, k - 1))
                          /\ lost' = lost \cup Range(SubSeq(b, k + 1, Len(b)))
                          /\ UNCHANGED <<inflight, batchBy>>

\* this call of processBatch on queue q returns a promise that rejects
Aborts(q) ==
    /\ ~processing
    /\ Len(q) > 0
    /\ (OnBatchThrows \/ FirstThrowing(BatchOf(q)) # 0)

\* the body of enqueue(task); kind tells what the task does when invoked: it
\* returns a promise that settles by itself ("plain") or only after an I/O
\* event ("io"), or it throws ("throws")
EnqueueKind(kind) ==
    /\ nextTask <= MaxTasks
    /\ nextTask' = nextTask + 1
    /\ io' = IF kind = "io" THEN io \cup {nextTask} ELSE io
    /\ throwing' = IF kind = "throws" THEN throwing \cup {nextTask} ELSE throwing
    /\ dropped' = dropped \cup Shifted(queue)
    /\ LET q == PushDropOldest(queue, nextTask) IN
         IF Len(q) >= batchSize
         THEN ProcessBatch(q, "enqueue")
         ELSE /\ queue' = q
              /\ UNCHANGED <<processing, inflight, batchBy, started,
                             batchCount, threw, orphans, lost>>
    /\ UNCHANGED <<batchSize, maxQueueSize, timer, finished, flushPc,
                   flushSnap, failed, propagated, stopSnap, flushAfterStop,
                   badBatch>>

\* the body of enqueue(task) for a task that returns a promise; waits tells
\* whether the promise settles only after an I/O event or by itself
EnqueueBody(waits) == EnqueueKind(IF waits THEN "io" ELSE "plain")

\* enqueue(task) called by a user of the queue alone
EnqueueTask(waits) ==
    /\ UNCHANGED <<dbvars, svars, cvars, dvars, nvars, gvars, evars, tvars>>
    /\ EnqueueBody(waits)

\* enqueue(task) of a task that settles by itself, like the tasks of the tests
Enqueue == EnqueueTask(FALSE)

\* enqueue(task) of a task that awaits I/O
EnqueueAwaiting ==
    /\ nextTask <= MaxAwaiting
    /\ EnqueueTask(TRUE)

\* enqueue(task) of a task that throws when it is invoked
EnqueueThrowing ==
    /\ UNCHANGED <<dbvars, svars, cvars, dvars, nvars, gvars, evars, tvars>>
    /\ Cardinality(throwing) < MaxThrowing
    /\ EnqueueKind("throws")

\* an event of the event loop (a timer callback, an I/O completion) can be
\* delivered: no continuation of flush() is waiting in the microtask queue.
\* `await this.processBatch()` on a call that returned at its guard resumes
\* as a microtask, and microtasks run before the event loop goes on.
EventLoopFree == flushPc # "loop"

\* the setInterval callback of startTimer
TimerTick ==
    /\ UNCHANGED <<dbvars, svars, cvars, dvars, nvars, gvars, evars, tvars>>
    /\ timer
    /\ EventLoopFree
    /\ Len(queue) > 0
    /\ ProcessBatch(queue, "timer")
    /\ UNCHANGED <<batchSize, maxQueueSize, timer, finished, dropped, nextTask,
                   flushPc, flushSnap, io, failed, propagated, stopSnap,
                   flushAfterStop, badBatch, throwing>>

\* task().catch(...) with the handler left out: the outcome passes through
Uncaught(outcome) == outcome

\* task().catch(err => console.error(...)): the promise handed to Promise.all
\* fulfils whatever the outcome of the task
CatchLogged(outcome) == "fulfilled"

\* the promise of task t of the batch in flight can settle now
CanSettle(t) ==
    /\ t \in inflight
    /\ t \in io => EventLoopFree

\* a task of the batch in flight fulfils
TaskSettle(t) ==
    /\ UNCHANGED <<dbvars, svars, cvars, dvars, nvars, gvars, evars, tvars>>
    /\ CanSettle(t)
    /\ inflight' = inflight \ {t}
    /\ finished' = finished \cup {t}
    /\ propagated' = (propagated \/ CatchLogged("fulfilled") = "rejected")
    /\ UNCHANGED <<batchSize, maxQueueSize, queue, processing, timer, batchBy,
                   started, dropped, nextTask, flushPc, flushSnap, io, failed,
                   batchCount, stopSnap, flushAfterStop, badBatch, throwing,
                   threw, orphans, lost>>

\* a task of the batch in flight rejects: the rejection is caught and logged
TaskReject(t) ==
    /\ UNCHANGED <<dbvars, svars, cvars, dvars, nvars, gvars, evars, tvars>>
    /\ CanSettle(t)
    /\ inflight' = inflight \ {t}
    /\ finished' = finished \cup {t}
    /\ failed' = failed \cup {t}
    /\ propagated' = (propagated \/ CatchLogged("rejected") = "rejected")
    /\ UNCHANGED <<batchSize, maxQueueSize, queue, processing, timer, batchBy,
                   started, dropped, nextTask, flushPc, flushSnap, io,
                   batchCount, stopSnap, flushAfterStop, badBatch, throwing,
                   threw, orphans, lost>>

\* Promise.all has resolved: the finally block clears the flag; a flush() that
\* awaited this processBatch goes back to the test of its while loop
BatchComplete ==
    /\ UNCHANGED <<dbvars, svars, cvars, dvars, nvars, gvars, evars, tvars>>
    /\ processing
    /\ batchBy # "none"
    /\ inflight = {}
    /\ processing' = FALSE
    /\ batchBy' = "none"
    /\ flushPc' = IF batchBy = "flush" THEN "loop" ELSE flushPc
    /\ UNCHANGED <<batchSize, maxQueueSize, queue, timer, inflight, started,
                   finished, dropped, nextTask, flushSnap, io, failed,
                   propagated, batchCount, stopSnap, flushAfterStop, badBatch,
                   throwing, threw, orphans, lost>>

\* a task that ran in a batch whose processBatch ended with a throw settles:
\* its promise, with the catch handler attached, is awaited by nobody
OrphanSettle(t) ==
    /\ UNCHANGED <<dbvars, svars, cvars, dvars, nvars, gvars, evars, tvars>>
    /\ t \in orphans
    /\ t \in io => EventLoopFree
    /\ orphans' = orphans \ {t}
    /\ finished' = finished \cup {t}
    /\ UNCHANGED <<batchSize, maxQueueSize, queue, processing, timer, inflight,
                   batchBy, started, dropped, nextTask, flushPc, flushSnap, io,
                   failed, propagated, batchCount, stopSnap, flushAfterStop,
                   badBatch, throwing, threw, lost>>

\* one evaluation of `while (this.queue.length > 0) await this.processBatch()`;
\* when the promise of processBatch rejects, the await throws and flush() ends
\* with its own promise rejected
FlushIter ==
    IF Len(queue) = 0
    THEN /\ flushPc' = "returned"
         /\ UNCHANGED <<queue, processing, inflight, batchBy, started,
                        batchCount, threw, orphans, lost>>
    ELSE /\ flushPc' = IF processing THEN "loop"
                       ELSE IF Aborts(queue) THEN "returned" ELSE "await"
         /\ ProcessBatch(queue, "flush")

\* flush() is called: the first test of the loop runs in the call itself
FlushCall ==
    /\ UNCHANGED <<dbvars, svars, cvars, dvars, nvars, gvars, evars, tvars>>
    /\ flushPc = "idle"
    /\ flushSnap' = 1..(nextTask - 1)
    /\ flushAfterStop' = ~timer
    /\ FlushIter
    /\ UNCHANGED <<batchSize, maxQueueSize, timer, finished, dropped, nextTask,
                   io, failed, propagated, stopSnap, badBatch, throwing>>

\* flush() resumes after an await
FlushStep ==
    /\ UNCHANGED <<dbvars, svars, cvars, dvars, nvars, gvars, evars, tvars>>
    /\ flushPc = "loop"
    /\ FlushIter
    /\ UNCHANGED <<batchSize, maxQueueSize, timer, finished, dropped, nextTask,
                   flushSnap, io, failed, propagated, stopSnap, flushAfterStop,
                   badBatch, throwing>>

\* the caller of flush() continues after it returned
FlushDone ==
    /\ UNCHANGED <<dbvars, svars, cvars, dvars, nvars, gvars, evars, tvars>>
    /\ flushPc = "returned"
    /\ flushPc' = "idle"
    /\ UNCHANGED <<batchSize, maxQueueSize, queue, processing, timer, inflight,
                   batchBy, started, finished, dropped, nextTask, flushSnap,
                   io, failed, propagated, batchCount, stopSnap,
                   flushAfterStop, badBatch, throwing, threw, orphans, lost>>

\* stop()
Stop ==
    /\ UNCHANGED <<dbvars, svars, cvars, dvars, nvars, gvars, evars, tvars>>
    /\ timer
    /\ timer' = FALSE
    /\ stopSnap' = Range(queue)
    /\ UNCHANGED <<batchSize, maxQueueSize, queue, processing, inflight,
                   batchBy, started, finished, dropped, nextTask, flushPc,
                   flushSnap, io, failed, propagated, batchCount,
                   flushAfterStop, badBatch, throwing, threw, orphans, lost>>

\* ================================================================ DatabaseManager

Users == {"u1", "u2"}

\* JavaScript undefined: the value of an omitted optional field
Undefined == -1

\* SQL NULL, read back as JavaScript null
Null == -2

\* what stmt.get returns when no row matches (undefined in place of a row)
NoRow == [user_id |-> "undefined"]

\* stmt.run(...) binds an undefined parameter as NULL
Bind(v) == IF v = Undefined THEN Null ELSE v

\* the VALUES clause of upsertRateLimit with lockout_until left unbound
RateLimitRowNoLockout(r) ==
    [user_id |-> r.user_id,
     request_count |-> Bind(r.request_count),
     window_start |-> Bind(r.window_start),
     lockout_until |-> Null,
     failed_attempts |-> Bind(r.failed_attempts)]

\* the row that the VALUES clause of upsertRateLimit builds from its argument
RateLimitRow(r) ==
    [user_id |-> r.user_id,
     request_count |-> Bind(r.request_count),
     window_start |-> Bind(r.window_start),
     lockout_until |-> Bind(r.lockout_until),
     failed_attempts |-> Bind(r.failed_attempts)]

\* the row that the VALUES clause of upsertUserReputation builds
ReputationRow(r) ==
    [user_id |-> r.user_id,
     trust_score |-> Bind(r.trust_score),
     total_requests |-> Bind(r.total_requests),
     blocked_attempts |-> Bind(r.blocked_attempts),
     last_violation |-> Bind(r.last_violation),
     is_allowlisted |-> Bind(r.is_allowlisted),
     is_blocklisted |-> Bind(r.is_blocklisted),
     notes |-> Bind(r.notes)]

\* upsertRateLimit with the conflict target lost: every row is overwritten
UpsertRateLimitAllRows(tbl, r) ==
    LET x == RateLimitRow(r) IN
      IF tbl = {} THEN {x} ELSE { [y EXCEPT !.request_count = x.request_count,
                                            !.window_start = x.window_start,
                                            !.lockout_until = x.lockout_until,
                                            !.failed_attempts = x.failed_attempts]
                                  : y \in tbl }

\* upsertRateLimit with window_start left out of the DO UPDATE SET list
UpsertRateLimitKeepWindow(tbl, r) ==
    LET x == RateLimitRow(r)
        hit == { y \in tbl : y.user_id = x.user_id }
    IN  IF hit = {} THEN tbl \cup {x}
        ELSE (tbl \ hit) \cup
             { [y EXCEPT !.request_count = x.request_count,
                         !.lockout_until = x.lockout_until,
                         !.failed_attempts = x.failed_attempts] : y \in hit }

\* upsertRateLimit: INSERT ... ON CONFLICT(user_id) DO UPDATE SET ...
UpsertRateLimitTbl(tbl, r) ==
    LET x == RateLimitRow(r)
        hit == { y \in tbl : y.user_id = x.user_id }
    IN  IF hit = {} THEN tbl \cup {x}
        ELSE (tbl \ hit) \cup
             { [y EXCEPT !.request_count = x.request_count,
                         !.window_start = x.window_start,
                         !.lockout_until = x.lockout_until,
                         !.failed_attempts = x.failed_attempts] : y \in hit }

\* getRateLimitByUserId: stmt.get gives the row, or undefined when none matches
GetRateLimitByUserId(tbl, u) ==
    LET hit == { y \in tbl : y.user_id = u }
    IN  IF hit = {} THEN NoRow ELSE CHOOSE y \in hit : TRUE

\* upsertUserReputation as a plain INSERT OR IGNORE: an existing row is kept
UpsertUserReputationIgnore(tbl, r) ==
    LET x == ReputationRow(r)
        hit == { y \in tbl : y.user_id = x.user_id }
    IN  IF hit = {} THEN tbl \cup {x} ELSE tbl

\* upsertUserReputation with is_blocklisted left out of the DO UPDATE SET list
UpsertUserReputationKeepFlag(tbl, r) ==
    LET x == ReputationRow(r)
        hit == { y \in tbl : y.user_id = x.user_id }
    IN  IF hit = {} THEN tbl \cup {x}
        ELSE (tbl \ hit) \cup
             { [y EXCEPT !.trust_score = x.trust_score,
                         !.total_requests = x.total_requests,
                         !.blocked_attempts = x.blocked_attempts,
                         !.last_violation = x.last_violation,
                         !.is_allowlisted = x.is_allowlisted,
                         !.notes = x.notes] : y \in hit }

\* upsertUserReputation: INSERT ... ON CONFLICT(user_id) DO UPDATE SET ...
UpsertUserReputationTbl(tbl, r) ==
    LET x == ReputationRow(r)
        hit == { y \in tbl : y.user_id = x.user_id }
    IN  IF hit = {} THEN tbl \cup {x}
        ELSE (tbl \ hit) \cup
             { [y EXCEPT !.trust_score = x.trust_score,
                         !.total_requests = x.total_requests,
                         !.blocked_attempts = x.blocked_attempts,
                         !.last_violation = x.last_violation,
                         !.is_allowlisted = x.is_allowlisted,
                         !.is_blocklisted = x.is_blocklisted,
                         !.notes = x.notes] : y \in hit }

\* getUserReputation
GetUserReputation(tbl, u) ==
    LET hit == { y \in tbl : y.user_id = u }
    IN  IF hit = {} THEN NoRow ELSE CHOOSE y \in hit : TRUE

\* arguments handed to upsertRateLimit by a direct caller of the store: for
\* each user the two records of the test and two that mix their fields
RateLimitArgs ==
    { [user_id |-> u, request_count |-> x[1], window_start |-> x[2],
       lockout_until |-> x[3], failed_attempts |-> x[4]]
      : u \in Users,
        x \in { <<5, 1, Undefined, 0>>, <<10, 2, 2, 3>>,
                <<5, 2, Undefined, 3>>, <<10, 1, 2, 0>> } }

\* arguments handed to upsertUserReputation by a direct caller of the store:
\* trust_score is any number, the last record carries one above the range
ReputationArgs ==
    { [user_id |-> u, trust_score |-> x[1], total_requests |-> x[2],
       blocked_attempts |-> x[3], last_violation |-> x[4],
       is_allowlisted |-> x[5], is_blocklisted |-> x[6], notes |-> x[7]]
      : u \in Users,
        x \in { <<100, 0, 0, Undefined, 0, 0, Undefined>>,
                <<85, 10, 2, 3, 0, 0, 7>>,
                <<85, 10, 0, Undefined, 1, 0, Undefined>>,
                <<40, 11, 2, 3, 0, 1, 7>>,
                <<TrustMax + TrustPenalty, 1, 0, Undefined, 0, 0, Undefined>> } }

\* db.upsertRateLimit(r)
UpsertRateLimit(r) ==
    /\ rate_limits' = UpsertRateLimitTbl(rate_limits, r)
    /\ lastRL' = [lastRL EXCEPT ![r.user_id] = r]
    /\ UNCHANGED <<user_reputation, lastRep>>
    /\ UNCHANGED <<qvars, cvars, dvars, nvars, gvars, evars, tvars>>

\* db.upsertUserReputation(r)
UpsertUserReputation(r) ==
    /\ user_reputation' = UpsertUserReputationTbl(user_reputation, r)
    /\ lastRep' = [lastRep EXCEPT ![r.user_id] = r]
    /\ UNCHANGED <<rate_limits, lastRL>>
    /\ UNCHANGED <<qvars, cvars, dvars, nvars, gvars, evars, tvars>>

\* ---- security_events and notifications_log ----
\* The clock counts days: CURRENT_TIMESTAMP is `now`, and
\* datetime('now', '-' || d || ' days') is now - d.

\* foreign keys not enforced, as with PRAGMA foreign_keys = OFF
ForeignKeysOff == FALSE

\* whether the connection enforces FOREIGN KEY (event_id) REFERENCES
\* security_events(id). new Database(dbPath) is followed by no PRAGMA, so
\* the default of the library holds: the SQLite of better-sqlite3 is compiled
\* with SQLITE_DEFAULT_FOREIGN_KEYS=1.
ForeignKeys == TRUE

Ids(tbl) == { r.id : r \in tbl }

MaxOf(S) == IF S = {} THEN 0 ELSE CHOOSE x \in S : \A y \in S : y <= x

\* the id of a new row under INTEGER PRIMARY KEY alone: one more than the
\* largest id in the table
NextRowid(tbl, seq) == MaxOf(Ids(tbl)) + 1

\* the id of a new row under INTEGER PRIMARY KEY AUTOINCREMENT: one more than
\* the largest id the table has ever held
NextAutoincrement(tbl, seq) == MaxOf(Ids(tbl) \cup {seq}) + 1

\* the columns insertEvent binds, reduced to two of the ten
EventArgs == [user_id : Users, severity : {"LOW", "HIGH"}]

NoEvent == [user_id |-> "none", severity |-> "none"]

\* the row insertEvent stores: id and timestamp are set by the table
EventRow(id, e, t) ==
    [id |-> id, timestamp |-> t, user_id |-> e.user_id, severity |-> e.severity]

\* the columns of a row that insertEvent binds
EventFields(r) == [user_id |-> r.user_id, severity |-> r.severity]

\* getEventById
GetEventById(tbl, id) ==
    LET hit == { y \in tbl : y.id = id }
    IN  IF hit = {} THEN NoRow ELSE CHOOSE y \in hit : TRUE

\* event ids handed to insertNotificationLog: ids insertEvent can have
\* returned, whether or not the event exists
LogArgs == [event_id : 1..MaxOps, channel : {"slack"}]

\* the events deleteOldEvents(d) selects: timestamp < now - d
OlderThan(tbl, d) == { r \in tbl : r.timestamp < now - d }

\* the record of a call: what it was given, what it returned, whether it threw
Op(op, e, d, ret, thrown) ==
    [op |-> op, event |-> e, days |-> d, ret |-> ret, threw |-> thrown]

\* db.insertEvent(e)
InsertEvent(e) ==
    /\ opNo < MaxOps
    /\ opNo' = opNo + 1
    /\ LET id == NextAutoincrement(security_events, eventSeq) IN
         /\ security_events' = security_events \cup {EventRow(id, e, now)}
         /\ eventSeq' = id
         /\ issued' = issued \cup {id}
         /\ lastOp' = Op("insertEvent", e, 0, id, FALSE)
    /\ UNCHANGED <<notifications_log, logSeq>>
    /\ UNCHANGED <<qvars, dbvars, svars, cvars, dvars, nvars, gvars, evars>>

\* db.insertNotificationLog(log): with foreign keys enforced the INSERT fails
\* when no event has the id log.event_id
InsertNotificationLog(log) ==
    /\ opNo < MaxOps
    /\ opNo' = opNo + 1
    /\ IF ForeignKeys /\ log.event_id \notin Ids(security_events)
       THEN /\ lastOp' = Op("insertNotificationLog", NoEvent, 0, 0, TRUE)
            /\ UNCHANGED <<notifications_log, logSeq>>
       ELSE LET id == NextAutoincrement(notifications_log, logSeq) IN
              /\ notifications_log' = notifications_log \cup
                    {[id |-> id, timestamp |-> now, event_id |-> log.event_id,
                      channel |-> log.channel]}
              /\ logSeq' = id
              /\ lastOp' = Op("insertNotificationLog", NoEvent, 0, id, FALSE)
    /\ UNCHANGED <<security_events, eventSeq, issued>>
    /\ UNCHANGED <<qvars, dbvars, svars, cvars, dvars, nvars, gvars, evars>>

\* db.deleteOldEvents(d): one DELETE statement; with foreign keys enforced it
\* fails as a whole, deleting nothing, when a row it selects is referenced by
\* a notifications_log row
DeleteOldEvents(d) ==
    /\ opNo < MaxOps
    /\ opNo' = opNo + 1
    /\ LET old == OlderThan(security_events, d) IN
         IF ForeignKeys /\ \E n \in notifications_log : n.event_id \in Ids(old)
         THEN /\ lastOp' = Op("deleteOldEvents", NoEvent, d, 0, TRUE)
              /\ UNCHANGED security_events
         ELSE /\ security_events' = security_events \ old
              /\ lastOp' = Op("deleteOldEvents", NoEvent, d, Cardinality(old),
                              FALSE)
    /\ UNCHANGED <<notifications_log, eventSeq, logSeq, issued>>
    /\ UNCHANGED <<qvars, dbvars, svars, cvars, dvars, nvars, gvars, evars>>

\* ================================================================ severity scorer

\* enum Severity, in declaration order
Severities == <<"SAFE", "LOW", "MEDIUM", "HIGH", "CRITICAL">>

\* enum Action, in declaration order
Actions == <<"allow", "log", "warn", "block", "block_notify">>

\* position in the total order SAFE < LOW < MEDIUM < HIGH < CRITICAL
SeverityRank(s) == CHOOSE i \in 1..Len(Severities) : Severities[i] = s

\* strictness of an action: allow < log < warn < block < block_notify
ActionRank(a) == CHOOSE i \in 1..Len(Actions) : Actions[i] = a

\* position of a severity when the enum's string values are compared as text
NameRank(s) ==
    CHOOSE i \in 1..5 : <<"CRITICAL", "HIGH", "LOW", "MEDIUM", "SAFE">>[i] = s

\* the larger of two severities, with the strings compared as text
MaxSeverityByName(a, b) == IF NameRank(b) > NameRank(a) THEN b ELSE a

\* the larger of two severities
MaxSeverity(a, b) == IF SeverityRank(b) > SeverityRank(a) THEN b ELSE a

RECURSIVE AggregateFrom(_, _)
\* one pass over the findings, keeping the highest severity seen so far
AggregateFrom(acc, fs) ==
    IF fs = <<>> THEN acc
    ELSE AggregateFrom(MaxSeverity(acc, Head(fs).severity), Tail(fs))

\* overall severity of a findings list; SAFE for the empty list
AggregateSeverity(fs) == AggregateFrom("SAFE", fs)

\* a finding, reduced to the detector that produced it and its severity
Findings == [module : {"prompt_injection", "command_validator"},
             severity : Range(Severities)]

FindingLists == UNION { [1..n -> Findings] : n \in 0..MaxFindings }

\* the scorer is applied to the findings list
Score ==
    /\ scoreOut = "none"
    /\ scoreOut' = AggregateSeverity(findingsIn)
    /\ UNCHANGED <<findingsIn, qvars, dbvars, svars, dvars, nvars, gvars, evars, tvars>>

\* ================================================================ detection dispatcher

Detectors == 1..MaxDetectors

\* what the scan that call c started on detector d reports when it matches;
\* the call field records which scan built the finding
Produced(d, c) == [module |-> d, severity |-> "HIGH", call |-> c]

\* what detector d reports, in the current call, when it matches
FindingOf(d) == Produced(d, callNo)

\* a detector that is not part of the current call
Unused == [status |-> "unused", findings |-> <<>>]

\* whatever a detector has produced is returned, completed or not
ContributionPartial(r) == r.findings

\* what a detector contributes to the result: its findings when it has
\* completed; a failed, unfinished or disabled one counts as "no finding"
Contribution(r) == IF r.status = "done" THEN r.findings ELSE <<>>

\* the findings of detectors 1..n, by detector then in the detector's order
RECURSIVE CollectUpTo(_, _)
CollectUpTo(d, n) ==
    IF n = 0 THEN <<>> ELSE CollectUpTo(d, n - 1) \o Contribution(d[n])

Collect(d) == CollectUpTo(d, MaxDetectors)

\* one result slot per detector shared by all calls: a scan that finishes
\* late overwrites the slot the next call reads
ResultsShared ==
    [d \in Detectors |->
       IF \E f \in arrivedLate : f.module = d /\ f.during = callNo
       THEN [status |-> "done",
             findings |-> <<Produced(d, (CHOOSE f \in arrivedLate :
                                 f.module = d /\ f.during = callNo).call)>>]
       ELSE det[d]]

\* the results a call collects from: those of the scans it started itself
ResultsOfCall == det

\* the call starts: every enabled detector is invoked, disabled ones skipped
StartDispatch(enabled) ==
    /\ callState = "idle"
    /\ callState' = "running"
    /\ callNo' = callNo + 1
    /\ det' = [d \in Detectors |->
                 IF d \in enabled THEN [status |-> "running", findings |-> <<>>]
                 ELSE [status |-> "skipped", findings |-> <<>>]]
    /\ collected' = <<>>
    /\ UNCHANGED <<stale, arrivedLate>>
    /\ UNCHANGED <<qvars, dbvars, svars, cvars, nvars, gvars, evars, tvars>>

\* a detector that is still working, in time or abandoned, appends a finding
DetectorFinds(d) ==
    /\ det[d].status \in {"running", "abandoned"}
    /\ det[d].findings = <<>>
    /\ det' = [det EXCEPT ![d].findings = Append(@, FindingOf(d))]
    /\ UNCHANGED <<callState, collected, callNo, stale, arrivedLate>>
    /\ UNCHANGED <<qvars, dbvars, svars, cvars, nvars, gvars, evars, tvars>>

\* a detector returns its findings before the deadline
DetectorCompletes(d) ==
    /\ det[d].status = "running"
    /\ det' = [det EXCEPT ![d].status = "done"]
    /\ UNCHANGED <<callState, collected, callNo, stale, arrivedLate>>
    /\ UNCHANGED <<qvars, dbvars, svars, cvars, nvars, gvars, evars, tvars>>

\* a detector throws or returns an error: a soft failure
DetectorFails(d) ==
    /\ det[d].status \in {"running", "abandoned"}
    /\ det' = [det EXCEPT ![d].status = "failed"]
    /\ UNCHANGED <<callState, collected, callNo, stale, arrivedLate>>
    /\ UNCHANGED <<qvars, dbvars, svars, cvars, nvars, gvars, evars, tvars>>

\* an abandoned detector finishes after the call has returned
DetectorLate(d) ==
    /\ det[d].status = "abandoned"
    /\ det' = [det EXCEPT ![d].status = "late"]
    /\ UNCHANGED <<callState, collected, callNo, stale, arrivedLate>>
    /\ UNCHANGED <<qvars, dbvars, svars, cvars, nvars, gvars, evars, tvars>>

\* the call returns: at the deadline, or earlier when no detector is running;
\* detectors still running are abandoned
DispatchReturns ==
    /\ callState = "running"
    /\ callState' = "returned"
    /\ collected' = Collect(ResultsOfCall)
    /\ UNCHANGED <<callNo, stale, arrivedLate>>
    /\ det' = [d \in Detectors |->
                 IF det[d].status = "running"
                 THEN [det[d] EXCEPT !.status = "abandoned"] ELSE det[d]]
    /\ UNCHANGED <<qvars, dbvars, svars, cvars, nvars, gvars, evars, tvars>>

\* what a scan delivers when it finishes after its call has returned: its
\* finding, with the call that was current when it arrived
Late(d, c) == [module |-> d, call |-> c, during |-> callNo]

\* the next call starts after the previous one returned: scans the previous
\* call abandoned go on working, every enabled detector is invoked afresh
Redispatch(enabled) ==
    /\ callState = "returned"
    /\ callNo < MaxCalls
    /\ callState' = "running"
    /\ callNo' = callNo + 1
    /\ stale' = stale \cup { <<d, callNo>> : d \in { x \in Detectors :
                                       det[x].status = "abandoned" } }
    /\ det' = [d \in Detectors |->
                 IF d \in enabled THEN [status |-> "running", findings |-> <<>>]
                 ELSE [status |-> "skipped", findings |-> <<>>]]
    /\ collected' = <<>>
    /\ arrivedLate' = arrivedLate \cup
                         { Late(d, callNo) : d \in { x \in Detectors :
                               /\ det[x].status = "late"
                               /\ det[x].findings # <<>> } }
    /\ UNCHANGED <<qvars, dbvars, svars, cvars, nvars, gvars, evars, tvars>>

\* a scan abandoned by an earlier call finishes with a finding while a later
\* call is running or has returned
StaleFinishes(d, c) ==
    /\ <<d, c>> \in stale
    /\ stale' = stale \ {<<d, c>>}
    /\ arrivedLate' = arrivedLate \cup {Late(d, c)}
    /\ UNCHANGED <<det, callState, collected, callNo>>
    /\ UNCHANGED <<qvars, dbvars, svars, cvars, nvars, gvars, evars, tvars>>

\* ================================================================ detectors

\* the words a text is made of: one harmless, the others each matched by one
\* of the patterns below
Words == {"hello", "ignore all previous instructions", "; rm -rf /", "$(whoami)"}

\* values a caller can hand to scan(text) or validate(command): strings of up
\* to MaxWords words, the empty string among them, and values that are not
\* strings
ScanInputs ==
    { [type |-> "string", text |-> t] :
        t \in UNION { [1..n -> Words] : n \in 0..MaxWords } } \cup
    { [type |-> k, text |-> <<>>] : k \in {"undefined", "null", "number", "symbol"} }

\* the enabled patterns of a detector, in the order of its pattern list
PatternsOf(module) ==
    IF module = "prompt_injection"
    THEN << [id |-> "instruction_override", severity |-> "CRITICAL",
             word |-> "ignore all previous instructions"] >>
    ELSE << [id |-> "rm_rf", severity |-> "CRITICAL", word |-> "; rm -rf /"],
            [id |-> "dollar_substitution", severity |-> "HIGH",
             word |-> "$(whoami)"] >>

\* regex.exec(text): the first match of the pattern, or null
Exec(pat, text) ==
    LET hits == { i \in 1..Len(text) : text[i] = pat.word }
    IN  IF hits = {} THEN Null
        ELSE CHOOSE i \in hits : \A j \in hits : i <= j

RECURSIVE MatchAll(_, _, _)
\* the for loop over the patterns: one finding per pattern that matches
MatchAll(module, pats, text) ==
    IF pats = <<>> THEN <<>>
    ELSE LET m == Exec(Head(pats), text)
             rest == MatchAll(module, Tail(pats), text)
         IN  IF m = Null THEN rest
             ELSE << [module |-> module, pattern |-> Head(pats).id,
                      severity |-> Head(pats).severity, position |-> m] >>
                  \o rest

\* how the promise of an async method settles
Fulfilled(fs) == [state |-> "fulfilled", findings |-> fs]

Rejected == [state |-> "rejected", findings |-> <<>>]

\* PromptInjectionDetector.scan(text): text.toLowerCase() is defined on
\* strings only; on any other value the call throws a TypeError
Scan(enabled, v) ==
    IF ~enabled THEN Fulfilled(<<>>)
    ELSE IF v.type # "string" THEN Rejected
    ELSE Fulfilled(MatchAll("prompt_injection",
                            PatternsOf("prompt_injection"), v.text))

\* CommandValidator.validate(command): regex.exec converts its argument with
\* ToString, which throws a TypeError for a symbol; the strings "undefined",
\* "null" and the digits of a number hold none of the words the patterns
\* match (the text of such a value is <<>>)
CommandValidate(enabled, v) ==
    IF ~enabled THEN Fulfilled(<<>>)
    ELSE IF v.type = "symbol" THEN Rejected
    ELSE Fulfilled(MatchAll("command_validator",
                            PatternsOf("command_validator"), v.text))

\* await detector.scan(v) on a PromptInjectionDetector
CallScan(enabled, v) ==
    /\ scanModule' = "prompt_injection"
    /\ scanEnabled' = enabled
    /\ scanInput' = v
    /\ scanResult' = Scan(enabled, v)
    /\ UNCHANGED <<qvars, dbvars, svars, cvars, dvars, gvars, evars, tvars>>

\* await validator.validate(v) on a CommandValidator
CallValidate(enabled, v) ==
    /\ scanModule' = "command_validator"
    /\ scanEnabled' = enabled
    /\ scanInput' = v
    /\ scanResult' = CommandValidate(enabled, v)
    /\ UNCHANGED <<qvars, dbvars, svars, cvars, dvars, gvars, evars, tvars>>

\* ================================================================ validation pipeline

Slots == 1..NumSlots

\* the default table with CRITICAL mapped to block, like HIGH
DefaultActionsNoNotify ==
    [s \in Range(Severities) |->
        CASE s = "SAFE" -> "allow"
          [] s = "LOW" -> "log"
          [] s = "MEDIUM" -> "warn"
          [] s = "HIGH" -> "block"
          [] s = "CRITICAL" -> "block"]

\* ConfigManager.getDefaultConfig().actions
DefaultActions ==
    [s \in Range(Severities) |->
        CASE s = "SAFE" -> "allow"
          [] s = "LOW" -> "log"
          [] s = "MEDIUM" -> "warn"
          [] s = "HIGH" -> "block"
          [] s = "CRITICAL" -> "block_notify"]

\* action tables a configuration file may set: the default one and one that
\* warns on SAFE, blocks on LOW and MEDIUM, allows HIGH and logs CRITICAL
ActionTables ==
    { DefaultActions,
      [s \in Range(Severities) |-> Actions[((SeverityRank(s) + 1) % 5) + 1]] }

\* owner_ids of the configurations considered: u1 is an owner, u2 is not
OwnerSets == { {"u1"} }

\* findings lists of the requests considered
RequestFindings ==
    { <<>>,
      <<[module |-> "command_validator", severity |-> "LOW"],
        [module |-> "prompt_injection", severity |-> "HIGH"]>>,
      <<[module |-> "prompt_injection", severity |-> "CRITICAL"]>> }

\* findings lists of the concurrent requests considered
ConcurrentFindings ==
    { <<>>, <<[module |-> "prompt_injection", severity |-> "HIGH"]>> }

HighSeverities == {"HIGH", "CRITICAL"}

BlockActions == {"block", "block_notify"}

NoLockout(v) == v = Undefined \/ v = Null

\* the lockout taken to end one time unit before lockout_until
LockoutActiveEarly(rl, t) ==
    ~NoLockout(rl.lockout_until) /\ t + 1 < rl.lockout_until

\* the identity of record rl is locked out at time t (checked at time of use)
LockoutActive(rl, t) ==
    ~NoLockout(rl.lockout_until) /\ t < rl.lockout_until

\* the record of an identity seen for the first time at time t
NewRateLimit(u, t) ==
    [user_id |-> u, request_count |-> 0, window_start |-> t,
     lockout_until |-> Undefined, failed_attempts |-> 0]

\* the reputation of an identity seen for the first time (column defaults)
NewReputation(u) ==
    [user_id |-> u, trust_score |-> TrustMax, total_requests |-> 0,
     blocked_attempts |-> 0, last_violation |-> Undefined,
     is_allowlisted |-> 0, is_blocklisted |-> 0, notes |-> Undefined]

Clamp(x) == IF x < TrustMin THEN TrustMin ELSE IF x > TrustMax THEN TrustMax ELSE x

\* trust score after a decision: the allow/block flags short-circuit scoring;
\* HIGH/CRITICAL findings or a block action cost a severity-weighted amount;
\* SAFE/LOW activity moves the score one step toward the neutral baseline
TrustAfter(rep, sev, action) ==
    IF rep.is_allowlisted = 1 \/ rep.is_blocklisted = 1 THEN rep.trust_score
    ELSE IF sev \in HighSeverities \/ action \in BlockActions
    THEN Clamp(rep.trust_score
               - TrustPenalty * (IF sev = "CRITICAL" THEN 2 ELSE 1))
    ELSE IF sev \in {"SAFE", "LOW"}
    THEN IF rep.trust_score < TrustNeutral
         THEN Min(TrustNeutral, rep.trust_score + TrustRecover)
         ELSE IF rep.trust_score - TrustRecover > TrustNeutral
         THEN rep.trust_score - TrustRecover ELSE TrustNeutral
    ELSE rep.trust_score

\* step 4 of the decision left out: a throttled identity gets the configured action
EscalateNever(a) == a

\* step 4 of the decision: throttling raises allow and log to warn
Escalate(a) == IF ActionRank(a) < ActionRank("warn") THEN "warn" ELSE a

\* the decision with the owner exemption tested before the blocklist / lockout
DecideOwnerFirst(state, isOwner, cfg) ==
    IF isOwner THEN "allow"
    ELSE IF state = "locked_out" THEN "block"
    ELSE IF state = "throttled" THEN Escalate(cfg)
    ELSE cfg

\* the action engine's precedence: 1 blocklisted or locked_out -> block,
\* 2 owner -> allow, 3 the configured action, 4 escalation when throttled
Decide(state, isOwner, cfg) ==
    IF state = "locked_out" THEN "block"
    ELSE IF isOwner THEN "allow"
    ELSE IF state = "throttled" THEN Escalate(cfg)
    ELSE cfg

\* one validation of findings f for identity u at time t, given the records
\* rl0 and rep0 read from the store (NoRow when the identity is new): the
\* records to write back, the state observed and the action
Validate(rl0, rep0, u, f, t) ==
    LET isOwner == u \in owner_ids
        \* an owner bypasses detection: no finding reaches the scorer
        sev == IF isOwner THEN "SAFE" ELSE AggregateSeverity(f)
        rep1 == IF rep0 = NoRow THEN NewReputation(u) ELSE rep0
        rl1 == IF rl0 = NoRow THEN NewRateLimit(u, t) ELSE rl0
        locked == LockoutActive(rl1, t)
        \* lockout expiry, evaluated lazily: back to normal, counters reset
        rl2 == IF ~NoLockout(rl1.lockout_until) /\ ~locked
               THEN NewRateLimit(u, t) ELSE rl1
        held == locked \/ rep1.is_blocklisted = 1
        \* window expiry, evaluated lazily
        rl3 == IF t > rl2.window_start + WindowLen
               THEN [rl2 EXCEPT !.window_start = t, !.request_count = 0]
               ELSE rl2
        rl4 == [rl3 EXCEPT !.request_count = @ + 1,
                           !.failed_attempts =
                               IF sev \in HighSeverities THEN @ + 1 ELSE 0]
        trips == rl4.failed_attempts > LockoutThreshold
        rl5 == IF trips
               THEN [rl4 EXCEPT !.lockout_until = t + LockoutDuration,
                                !.window_start = t, !.request_count = 0]
               ELSE rl4
        state == IF held \/ trips THEN "locked_out"
                 ELSE IF rl4.request_count > MaxPerWindow THEN "throttled"
                 ELSE "normal"
        cfg == actions[sev]
        action == Decide(state, isOwner, cfg)
    IN  [rl |-> IF held THEN rl2 ELSE rl5,
         rep |-> [rep1 EXCEPT
                    !.total_requests = @ + 1,
                    !.blocked_attempts =
                        IF action \in BlockActions THEN @ + 1 ELSE @,
                    !.last_violation =
                        IF action \in BlockActions \/ sev \in HighSeverities
                        THEN t ELSE @,
                    !.trust_score = TrustAfter(rep1, sev, action)],
         sev |-> sev, state |-> state, cfg |-> cfg, action |-> action]

\* the request and the reads of an idle slot
NoRequest == [user |-> "u1", f |-> <<>>]

NoRead == [rl |-> NoRow, rep |-> NoRow]

\* the critical section of identity u is free
LockFree(u) == lock[u] = 0

\* a validation of findings f for identity u begins in slot p and enters the
\* critical section of u
Begin(p, u, f) ==
    /\ pc[p] = "idle"
    /\ \A q \in 1..(p - 1) : pc[q] # "idle"
    /\ nreq < MaxConcurrent
    /\ LockFree(u)
    /\ lock' = [lock EXCEPT ![u] = p]
    /\ pc' = [pc EXCEPT ![p] = "read"]
    /\ cur' = [cur EXCEPT ![p] = [user |-> u, f |-> f]]
    /\ nreq' = nreq + 1
    /\ UNCHANGED <<owner_ids, actions, now, loc, lastRes, done, solo, opUser,
                   blockset>>
    /\ UNCHANGED <<qvars, dbvars, svars, cvars, dvars, nvars, gvars, tvars>>

\* the validation in slot p reads the two records of its identity
Read(p) ==
    /\ pc[p] = "read"
    /\ loc' = [loc EXCEPT ![p] =
                 [rl |-> GetRateLimitByUserId(rate_limits, cur[p].user),
                  rep |-> GetUserReputation(user_reputation, cur[p].user)]]
    /\ pc' = [pc EXCEPT ![p] = "write"]
    /\ UNCHANGED <<owner_ids, actions, now, lock, cur, lastRes, nreq, done,
                   solo, opUser, blockset>>
    /\ UNCHANGED <<qvars, dbvars, svars, cvars, dvars, nvars, gvars, tvars>>

\* the decision of a validation of findings f for identity u that read rl0
\* and rep0: both records are written back and the result is returned
Commit(u, f, rl0, rep0) ==
    LET v == Validate(rl0, rep0, u, f, now)
        a == Validate(GetRateLimitByUserId(solo[u].rl, u),
                      GetUserReputation(solo[u].rep, u), u, f, now)
    IN  /\ rate_limits' = UpsertRateLimitTbl(rate_limits, v.rl)
        /\ user_reputation' = UpsertUserReputationTbl(user_reputation, v.rep)
        /\ solo' = [solo EXCEPT ![u] =
                      [rl |-> UpsertRateLimitTbl(@.rl, a.rl),
                       rep |-> UpsertUserReputationTbl(@.rep, a.rep)]]
        /\ lastRes' = [kind |-> "result", user |-> u,
                       owner |-> u \in owner_ids,
                       blocklisted |-> u \in blockset,
                       f |-> f, t |-> now,
                       sev |-> v.sev, state |-> v.state, cfg |-> v.cfg,
                       action |-> v.action,
                       rlPre |-> rl0, soloAction |-> a.action]
        /\ done' = [done EXCEPT ![u] = @ + 1]
        /\ opUser' = u

\* the validation in slot p decides, writes both records back, leaves the
\* critical section and returns its result
Write(p) ==
    /\ pc[p] = "write"
    /\ Commit(cur[p].user, cur[p].f, loc[p].rl, loc[p].rep)
    /\ lock' = [lock EXCEPT ![cur[p].user] = IF @ = p THEN 0 ELSE @]
    /\ pc' = [pc EXCEPT ![p] = "idle"]
    /\ cur' = [cur EXCEPT ![p] = NoRequest]
    /\ loc' = [loc EXCEPT ![p] = NoRead]
    /\ UNCHANGED <<owner_ids, actions, now, nreq, blockset>>
    /\ UNCHANGED <<qvars, svars, cvars, dvars, nvars, gvars, tvars>>

\* a validation of findings f for identity u with no other validation in
\* progress: it enters the critical section, reads, decides, writes and returns
ValidateAlone(u, f) ==
    /\ \A p \in Slots : pc[p] = "idle"
    /\ nreq < MaxReqs
    /\ LockFree(u)
    /\ Commit(u, f, GetRateLimitByUserId(rate_limits, u),
              GetUserReputation(user_reputation, u))
    /\ nreq' = nreq + 1
    /\ UNCHANGED <<owner_ids, actions, now, lock, pc, cur, loc, blockset>>
    /\ UNCHANGED <<qvars, svars, cvars, dvars, nvars, gvars, tvars>>

\* the action schedules a notification persistence task
NotifyOn(action) == action = "block_notify"

\* a validation as ValidateAlone, by an engine that owns the queue: when the
\* action calls for it, a notification persistence task is enqueued
ValidateNotify(u, f) ==
    /\ \A p \in Slots : pc[p] = "idle"
    /\ nreq < MaxNotifyReqs
    /\ LockFree(u)
    /\ Commit(u, f, GetRateLimitByUserId(rate_limits, u),
              GetUserReputation(user_reputation, u))
    /\ nreq' = nreq + 1
    /\ IF NotifyOn(Validate(GetRateLimitByUserId(rate_limits, u),
                            GetUserReputation(user_reputation, u),
                            u, f, now).action)
       THEN EnqueueBody(FALSE)
       ELSE UNCHANGED qvars
    /\ UNCHANGED <<owner_ids, actions, now, lock, pc, cur, loc, blockset>>
    /\ UNCHANGED <<svars, cvars, dvars, nvars, gvars, tvars>>

\* an administrator sets the blocklist flag of identity u, inside the
\* critical section of u
SetBlocklisted(u) ==
    /\ LockFree(u)
    /\ u \notin blockset
    /\ LET b == 1
           r0 == GetUserReputation(user_reputation, u)
           r == IF r0 = NoRow THEN NewReputation(u) ELSE r0
           s0 == GetUserReputation(solo[u].rep, u)
           s == IF s0 = NoRow THEN NewReputation(u) ELSE s0
       IN  /\ user_reputation' =
                 UpsertUserReputationTbl(user_reputation,
                                         [r EXCEPT !.is_blocklisted = b])
           /\ solo' = [solo EXCEPT ![u].rep =
                         UpsertUserReputationTbl(@, [s EXCEPT !.is_blocklisted = b])]
    /\ blockset' = blockset \cup {u}
    /\ opUser' = u
    /\ UNCHANGED <<owner_ids, actions, now, lock, pc, cur, loc, lastRes, nreq,
                   done>>
    /\ UNCHANGED <<rate_limits, qvars, svars, cvars, dvars, nvars, gvars, tvars>>

\* time passes
Tick ==
    /\ now < MaxTime
    /\ now' = now + 1
    /\ UNCHANGED <<owner_ids, actions, lock, pc, cur, loc, lastRes, nreq, done,
                   solo, opUser, blockset>>
    /\ UNCHANGED <<qvars, dbvars, svars, cvars, dvars, nvars, gvars, tvars>>

\* ================================================================ ConfigManager

\* const validSensitivities = ['paranoid', 'strict', 'medium', 'permissive']
ValidSensitivities == {"paranoid", "strict", "medium", "permissive"}

\* a value of config.actions: an object, an array or the empty string with
\* their own enumerable properties, or null; "absent" is a key that the
\* configuration file does not set
Table(shape, entries) == [shape |-> shape, entries |-> entries]

\* what `actions:` can be set to: an object that maps some of the five
\* severities, each to a valid action, a word that is no action or YAML null;
\* or [], ['allow'], '' and null
TablesTried ==
    { Table("object", f) :
        f \in UNION { [K -> {"allow", "block_notify", "shutdown", "null"}] :
                        K \in SUBSET Range(Severities) } } \cup
    { Table("array", <<>>), Table("array", [k \in {"0"} |-> "allow"]),
      Table("string", <<>>), Table("null", <<>>) }

\* ConfigManager.getDefaultConfig(), reduced to the validated fields
GetDefaultConfig ==
    [sensitivity |-> "medium", actions |-> Table("object", DefaultActions)]

\* isObject(item)
IsObject(t) == t.shape = "object"

\* deepMerge on the actions objects: the keys of both, the source's value
\* where it has the key
MergeEntries(t, u) ==
    [k \in (DOMAIN t) \cup (DOMAIN u) |-> IF k \in DOMAIN u THEN u[k] ELSE t[k]]

\* deepMerge(defaultConfig, userConfig)
DeepMerge(target, source) ==
    [sensitivity |-> IF source.sensitivity = "absent" THEN target.sensitivity
                     ELSE source.sensitivity,
     actions |-> IF source.actions.shape = "absent" THEN target.actions
                 ELSE IF IsObject(source.actions)
                 THEN Table("object", MergeEntries(target.actions.entries,
                                                   source.actions.entries))
                 ELSE source.actions]

\* validateConfig with a test that every severity is a key of the table
ValidateConfigTotal(c) ==
    /\ c.sensitivity \in ValidSensitivities
    /\ c.actions.shape \notin {"null", "absent"}
    /\ Range(Severities) \subseteq DOMAIN c.actions.entries
    /\ \A k \in DOMAIN c.actions.entries :
         c.actions.entries[k] \in Range(Actions)

\* validateConfig(config) returns: the sensitivity is one of the four, and
\* every entry of Object.entries(config.actions), which throws on null and
\* undefined, is one of the values of enum Action
ValidateConfig(c) ==
    /\ c.sensitivity \in ValidSensitivities
    /\ c.actions.shape \notin {"null", "absent"}
    /\ \A k \in DOMAIN c.actions.entries :
         c.actions.entries[k] \in Range(Actions)

\* configurations handed to validateConfig, and openclaw_security sections of
\* the files handed to load
ConfigInputs ==
    [sensitivity : ValidSensitivities \cup {"invalid", "absent"},
     actions : TablesTried \cup {Table("absent", <<>>)}]

\* ConfigManager.validateConfig(c) called directly, once, at startup
CallValidateConfig(c) ==
    /\ cfgVia = "none"
    /\ cfgVia' = "validateConfig"
    /\ cfgResult' = c
    /\ cfgOutcome' = IF ValidateConfig(c) THEN "accepted" ELSE "rejected"
    /\ UNCHANGED <<qvars, dbvars, svars, cvars, dvars, nvars, evars, tvars>>

\* ConfigManager.load(path), called once at startup: the defaults when the
\* file does not exist, else the file merged over the defaults and validated
Load(exists, user) ==
    /\ cfgVia = "none"
    /\ cfgVia' = "load"
    /\ cfgResult' = IF exists THEN DeepMerge(GetDefaultConfig, user)
                    ELSE GetDefaultConfig
    /\ cfgOutcome' = IF exists /\ ~ValidateConfig(DeepMerge(GetDefaultConfig, user))
                     THEN "rejected" ELSE "accepted"
    /\ UNCHANGED <<qvars, dbvars, svars, cvars, dvars, nvars, evars, tvars>>

\* ================================================================ specifications

\* new AsyncQueue(options): empty queue, timer started; bad tells on which of
\* its calls options.onBatch throws
QueueCreated(bad) ==
    /\ badBatch = bad
    /\ throwing = {}
    /\ threw = {}
    /\ orphans = {}
    /\ lost = {}
    /\ batchSize \in 1..MaxBatch
    /\ maxQueueSize \in 1..MaxCap
    /\ queue = <<>>
    /\ processing = FALSE
    /\ timer = TRUE
    /\ inflight = {}
    /\ batchBy = "none"
    /\ started = <<>>
    /\ finished = {}
    /\ dropped = {}
    /\ nextTask = 1
    /\ flushPc = "idle"
    /\ flushSnap = {}
    /\ io = {}
    /\ failed = {}
    /\ propagated = FALSE
    /\ batchCount = 0
    /\ stopSnap = {}
    /\ flushAfterStop = FALSE

\* a queue whose onBatch callback never throws: the default () => {}
InitQueue == QueueCreated(0)

NextQueue ==
    \/ Enqueue
    \/ TimerTick
    \/ \E t \in 1..MaxTasks : TaskSettle(t)
    \/ \E t \in 1..MaxTasks : TaskReject(t)
    \/ BatchComplete
    \/ FlushCall
    \/ FlushStep
    \/ FlushDone
    \/ Stop




\* no dispatch call has been made
IdleDispatch ==
    /\ det = [d \in Detectors |-> Unused]
    /\ callState = "idle"
    /\ collected = <<>>
    /\ callNo = 0
    /\ stale = {}
    /\ arrivedLate = {}

\* no configuration has been loaded or validated
IdleConfig ==
    /\ cfgVia = "none"
    /\ cfgResult = GetDefaultConfig
    /\ cfgOutcome = "accepted"

\* no detector has been called
IdleDetectors ==
    /\ scanModule = "none"
    /\ scanEnabled = TRUE
    /\ scanInput = [type |-> "string", text |-> <<>>]
    /\ scanResult = Fulfilled(<<>>)

\* the scorer, the dispatcher and the detectors of a program that only uses
\* the queue or the store
IdleScorer ==
    /\ findingsIn = <<>>
    /\ scoreOut = "none"
    /\ IdleDispatch
    /\ IdleDetectors
    /\ IdleConfig

\* the pipeline before any validation, under a given configuration
InitPipeline ==
    /\ owner_ids \in OwnerSets
    /\ actions \in ActionTables
    /\ now = 0
    /\ lock = [u \in Users |-> 0]
    /\ pc = [p \in Slots |-> "idle"]
    /\ cur = [p \in Slots |-> NoRequest]
    /\ loc = [p \in Slots |-> NoRead]
    /\ lastRes = [kind |-> "none"]
    /\ nreq = 0
    /\ done = [u \in Users |-> 0]
    /\ solo = [u \in Users |-> [rl |-> {}, rep |-> {}]]
    /\ opUser = "u1"
    /\ blockset = {}

\* the pipeline of a program that only uses the queue, the store or the scorer
IdlePipeline ==
    /\ InitPipeline
    /\ actions = DefaultActions

\* the queue of a program that only uses the store
IdleQueue ==
    /\ badBatch = 0
    /\ throwing = {}
    /\ threw = {}
    /\ orphans = {}
    /\ lost = {}
    /\ batchSize = 1
    /\ maxQueueSize = 1
    /\ queue = <<>>
    /\ processing = FALSE
    /\ timer = TRUE
    /\ inflight = {}
    /\ batchBy = "none"
    /\ started = <<>>
    /\ finished = {}
    /\ dropped = {}
    /\ nextTask = 1
    /\ flushPc = "idle"
    /\ flushSnap = {}
    /\ io = {}
    /\ failed = {}
    /\ propagated = FALSE
    /\ batchCount = 0
    /\ stopSnap = {}
    /\ flushAfterStop = FALSE

\* new DatabaseManager(path) on a fresh file: initializeSchema, empty tables
InitDb ==
    /\ rate_limits = {}
    /\ user_reputation = {}
    /\ security_events = {}
    /\ notifications_log = {}
    /\ eventSeq = 0
    /\ logSeq = 0
    /\ issued = {}
    /\ opNo = 0
    /\ lastOp = Op("none", NoEvent, 0, 0, FALSE)

InitGhost ==
    /\ lastRL = [u \in Users |-> NoRow]
    /\ lastRep = [u \in Users |-> NoRow]

InitStore == IdleQueue /\ InitDb /\ InitGhost /\ IdleScorer /\ IdlePipeline

NextStore ==
    \/ \E r \in RateLimitArgs : UpsertRateLimit(r)
    \/ \E r \in ReputationArgs : UpsertUserReputation(r)

SpecStore == InitStore /\ [][NextStore]_vars

InitQueueOnly == InitQueue /\ InitDb /\ InitGhost /\ IdleScorer /\ IdlePipeline

SpecQueue == InitQueueOnly /\ [][NextQueue]_vars

\* the queue with tasks that await I/O among its tasks
NextFlush ==
    \/ NextQueue
    \/ EnqueueAwaiting

\* microtasks always run: the continuations of flush() and of processBatch;
\* a task settles once the event it waits for can be delivered
FairFlush ==
    /\ WF_vars(FlushStep)
    /\ WF_vars(BatchComplete)
    /\ WF_vars(\E t \in 1..MaxTasks : TaskSettle(t) \/ TaskReject(t))

SpecFlush == InitQueueOnly /\ [][NextFlush]_vars /\ FairFlush

\* the queue with tasks that throw when invoked and an onBatch that may throw
InitFaults ==
    /\ \E bad \in 0..MaxBadBatch : QueueCreated(bad)
    /\ InitDb /\ InitGhost /\ IdleScorer /\ IdlePipeline

NextFaults ==
    \/ Enqueue
    \/ EnqueueThrowing
    \/ TimerTick
    \/ \E t \in 1..MaxTasks : TaskSettle(t)
    \/ \E t \in 1..MaxTasks : TaskReject(t)
    \/ \E t \in 1..MaxTasks : OrphanSettle(t)
    \/ BatchComplete
    \/ FlushCall
    \/ FlushStep
    \/ FlushDone
    \/ Stop

\* setInterval keeps calling its callback while the timer runs; microtasks
\* always run; every task that was invoked settles
FairFaults ==
    /\ WF_vars(TimerTick)
    /\ WF_vars(FlushStep)
    /\ WF_vars(BatchComplete)
    /\ WF_vars(\E t \in 1..MaxTasks : TaskSettle(t) \/ TaskReject(t))
    /\ WF_vars(\E t \in 1..MaxTasks : OrphanSettle(t))

SpecFaults == InitFaults /\ [][NextFaults]_vars /\ FairFaults

InitScorer ==
    /\ findingsIn \in FindingLists
    /\ scoreOut = "none"
    /\ IdleDispatch
    /\ IdleDetectors
    /\ IdleConfig
    /\ IdleQueue /\ InitDb /\ InitGhost /\ IdlePipeline

NextScorer == Score

SpecScorer == InitScorer /\ [][NextScorer]_vars

InitEngine == IdleQueue /\ InitDb /\ InitGhost /\ IdleScorer /\ InitPipeline

\* validations made one after the other
NextEngine ==
    \/ \E u \in Users, f \in RequestFindings : ValidateAlone(u, f)
    \/ \E u \in Users : SetBlocklisted(u)
    \/ Tick

SpecEngine == InitEngine /\ [][NextEngine]_vars

InitDispatch == IdleQueue /\ InitDb /\ InitGhost /\ IdleScorer /\ IdlePipeline

NextDispatch ==
    \/ \E enabled \in SUBSET Detectors : StartDispatch(enabled)
    \/ \E d \in Detectors : DetectorFinds(d)
    \/ \E d \in Detectors : DetectorCompletes(d)
    \/ \E d \in Detectors : DetectorFails(d)
    \/ \E d \in Detectors : DetectorLate(d)
    \/ DispatchReturns

SpecDispatch == InitDispatch /\ [][NextDispatch]_vars

InitDetectors == IdleQueue /\ InitDb /\ InitGhost /\ IdleScorer /\ IdlePipeline

\* the detectors called directly, as their tests call them
NextDetectors ==
    \/ \E enabled \in BOOLEAN, v \in ScanInputs : CallScan(enabled, v)
    \/ \E enabled \in BOOLEAN, v \in ScanInputs : CallValidate(enabled, v)

SpecDetectors == InitDetectors /\ [][NextDetectors]_vars

InitEvents == IdleQueue /\ InitDb /\ InitGhost /\ IdleScorer /\ IdlePipeline

\* the event log and the notification log used directly, as time passes
NextEvents ==
    \/ \E e \in EventArgs : InsertEvent(e)
    \/ \E log \in LogArgs : InsertNotificationLog(log)
    \/ \E d \in 0..MaxKeep : DeleteOldEvents(d)
    \/ Tick

SpecEvents == InitEvents /\ [][NextEvents]_vars

InitConfig == IdleQueue /\ InitDb /\ InitGhost /\ IdleScorer /\ IdlePipeline

\* configurations validated and loaded at startup
NextConfig ==
    \/ cfgVia = "none" /\ \E c \in ConfigInputs : CallValidateConfig(c)
    \/ cfgVia = "none" /\ \E exists \in BOOLEAN, user \in ConfigInputs :
                             Load(exists, user)

SpecConfig == InitConfig /\ [][NextConfig]_vars

\* dispatch calls made one after the other on the same detectors
NextRedispatch ==
    \/ \E enabled \in SUBSET (1..MaxRacing) : StartDispatch(enabled)
    \/ \E enabled \in SUBSET (1..MaxRacing) : Redispatch(enabled)
    \/ \E d \in Detectors : DetectorFinds(d)
    \/ \E d \in Detectors : DetectorCompletes(d)
    \/ \E d \in Detectors : DetectorLate(d)
    \/ \E d \in Detectors, c \in 1..MaxCalls : StaleFinishes(d, c)
    \/ DispatchReturns

SpecRedispatch == InitDispatch /\ [][NextRedispatch]_vars

InitNotify == InitQueue /\ InitDb /\ InitGhost /\ IdleScorer /\ InitPipeline

\* validations made one after the other by an engine that owns a queue, and
\* the queue executing the tasks
NextNotify ==
    \/ \E u \in Users, f \in RequestFindings : ValidateNotify(u, f)
    \/ Tick
    \/ TimerTick
    \/ \E t \in 1..MaxTasks : TaskSettle(t)
    \/ BatchComplete

SpecNotify == InitNotify /\ [][NextNotify]_vars

\* validations made concurrently, each in a slot of its own
NextConcurrent ==
    \/ \E p \in Slots, u \in Users, f \in ConcurrentFindings : Begin(p, u, f)
    \/ \E p \in Slots : Read(p)
    \/ \E p \in Slots : Write(p)
    \/ \E u \in Users : SetBlocklisted(u)
    \/ now < MaxConcurrentTime /\ Tick

SpecConcurrent == InitEngine /\ [][NextConcurrent]_vars

\* ================================================================ claims

EnqueueStep == nextTask' = nextTask + 1

FlushReturns == flushPc # "returned" /\ flushPc' = "returned"

Known == Range(queue) \cup Range(started) \cup dropped

\* C1 (as stated): size() never exceeds maxQueueSize, and an enqueue(t) made
\* while maxQueueSize tasks are pending drops exactly the oldest pending task
\* and leaves t in the queue as its newest pending task.
C1_AsStated ==
    /\ [](Len(queue) <= maxQueueSize)
    /\ [][ (EnqueueStep /\ Len(queue) = maxQueueSize) =>
             /\ dropped' = dropped \cup {Head(queue)}
             /\ Len(queue') > 0
             /\ queue'[Len(queue')] = nextTask ]_vars

\* C1 (amended): size() never exceeds maxQueueSize, and an enqueue(t) made
\* while maxQueueSize tasks are pending drops exactly the oldest pending task
\* and loses no other task; t is then the newest pending task or, when that
\* enqueue itself starts a batch that takes the whole queue, the task started
\* last in that batch.
C1_DropOldest ==
    /\ [](Len(queue) <= maxQueueSize)
    /\ [][ (EnqueueStep /\ Len(queue) = maxQueueSize) =>
             /\ dropped' = dropped \cup {Head(queue)}
             /\ nextTask \notin dropped'
             /\ Known' = Known \cup {nextTask}
             /\ \/ Len(queue') > 0 /\ queue'[Len(queue')] = nextTask
                \/ /\ queue' = <<>>
                   /\ nextTask \in inflight'
                   /\ started'[Len(started')] = nextTask
                   /\ ~processing
                   /\ batchSize = maxQueueSize ]_vars

\* C1 witness: an overflow has dropped a task, the queue is full again and
\* the task enqueued last is its newest element
C1_Witness ==
    /\ dropped # {}
    /\ Len(queue) = maxQueueSize
    /\ queue[Len(queue)] = nextTask - 1
    /\ nextTask - 1 > maxQueueSize

\* C2: when flush() returns the queue is empty and every task enqueued before
\* the call and not dropped by overflow has finished executing, also when a
\* batch started by enqueue or by the timer was in flight at the call.
C2_FlushDrains ==
    [][ FlushReturns =>
          /\ queue' = <<>>
          /\ (flushSnap' \ dropped') \subseteq finished' ]_vars

Decided == lastRes.kind = "result"

\* C3: a validation of an identity that is blocklisted or in state locked_out
\* returns BLOCK, whatever the findings, the aggregated severity and the
\* configured action table.
C3_BlockedIdentityBlocks ==
    (Decided /\ (lastRes.blocklisted \/ lastRes.state = "locked_out"))
        => lastRes.action = "block"

\* C3 witness: a locked-out identity that is not blocklisted sends a request
\* without findings, for which the table configures warn, and is blocked
C3_Witness ==
    /\ Decided
    /\ lastRes.state = "locked_out"
    /\ ~lastRes.blocklisted
    /\ lastRes.rlPre # NoRow
    /\ ~NoLockout(lastRes.rlPre.lockout_until)
    /\ lastRes.f = <<>>
    /\ lastRes.cfg = "warn"
    /\ lastRes.action = "block"

\* C4: a validation of an owner identity returns ALLOW whatever the findings,
\* except that a blocklisted owner gets BLOCK.
C4_OwnerAllowed ==
    (Decided /\ lastRes.owner)
        => lastRes.action = IF lastRes.blocklisted THEN "block" ELSE "allow"

\* C4 witness: an owner that is not blocklisted sends a request with a
\* CRITICAL finding and is allowed
C4_Witness ==
    /\ Decided
    /\ lastRes.owner
    /\ ~lastRes.blocklisted
    /\ AggregateSeverity(lastRes.f) = "CRITICAL"
    /\ lastRes.action = "allow"

C6_NoInterference ==
    /\ [](\A u \in Users :
            /\ GetRateLimitByUserId(rate_limits, u)
                 = GetRateLimitByUserId(solo[u].rl, u)
            /\ GetUserReputation(user_reputation, u)
                 = GetUserReputation(solo[u].rep, u))
    /\ [](Decided => lastRes.action = lastRes.soloAction)
    /\ [][\A b \in Users :
            b # opUser' =>
              /\ GetRateLimitByUserId(rate_limits', b)
                   = GetRateLimitByUserId(rate_limits, b)
              /\ GetUserReputation(user_reputation', b)
                   = GetUserReputation(user_reputation, b)]_vars

\* C6 witness: validations of two different identities are both between their
\* read and their write, one of the identities having a stored history
C6_Witness ==
    /\ pc[1] = "write"
    /\ pc[2] = "write"
    /\ cur[1].user # cur[2].user
    /\ done[cur[1].user] >= 1
    /\ GetRateLimitByUserId(rate_limits, cur[1].user) # NoRow

OneRowPerUser(tbl) ==
    \A u \in Users : Cardinality({ y \in tbl : y.user_id = u }) <= 1

Idempotent ==
    /\ \A r \in RateLimitArgs :
         UpsertRateLimitTbl(UpsertRateLimitTbl(rate_limits, r), r)
           = UpsertRateLimitTbl(rate_limits, r)
    /\ \A r \in ReputationArgs :
         UpsertUserReputationTbl(UpsertUserReputationTbl(user_reputation, r), r)
           = UpsertUserReputationTbl(user_reputation, r)

\* the fields of an upserted object as the database returns them: an optional
\* field that was undefined comes back as null
ReadBack(r) ==
    IF r = NoRow THEN NoRow
    ELSE [k \in DOMAIN r |->
            IF k = "user_id" THEN r[k]
            ELSE IF r[k] = Undefined THEN Null ELSE r[k]]

\* C7 (as stated): at most one row per user_id in each table; a get returns
\* undefined for a user never upserted and otherwise exactly the field values
\* of the latest upsert for that user; repeating an upsert changes nothing.
C7_AsStated ==
    /\ OneRowPerUser(rate_limits)
    /\ OneRowPerUser(user_reputation)
    /\ \A u \in Users :
         /\ GetRateLimitByUserId(rate_limits, u) = lastRL[u]
         /\ GetUserReputation(user_reputation, u) = lastRep[u]
    /\ Idempotent

\* C7 (amended): as stated, except that an optional field (lockout_until,
\* last_violation, notes) that was undefined in the latest upsert is returned
\* as null.
C7_LastWriteWins ==
    /\ OneRowPerUser(rate_limits)
    /\ OneRowPerUser(user_reputation)
    /\ \A u \in Users :
         /\ GetRateLimitByUserId(rate_limits, u) = ReadBack(lastRL[u])
         /\ GetUserReputation(user_reputation, u) = ReadBack(lastRep[u])
    /\ Idempotent

\* C7 witness: both users have a row in both tables, and one rate limit was
\* upserted last without a lockout_until and reads back with null
C7_Witness ==
    /\ Cardinality(rate_limits) = 2
    /\ Cardinality(user_reputation) = 2
    /\ lastRL["u1"].lockout_until = Undefined
    /\ lastRL["u1"].window_start = 2
    /\ GetRateLimitByUserId(rate_limits, "u1").lockout_until = Null
    /\ GetRateLimitByUserId(rate_limits, "u2").lockout_until = 2

\* the order SAFE < LOW < MEDIUM < HIGH < CRITICAL, written out
AtMost(a, b) ==
    \/ a = b
    \/ a = "SAFE"
    \/ b = "CRITICAL"
    \/ a = "LOW" /\ b \in {"MEDIUM", "HIGH"}
    \/ a = "MEDIUM" /\ b = "HIGH"

Orderings(n) ==
    { f \in [1..n -> 1..n] : \A i, j \in 1..n : f[i] = f[j] => i = j }

\* C8: the overall severity of a findings list is the greatest severity among
\* its findings, SAFE for the empty list, and the same for every ordering of
\* the findings.
C8_MaxSeverity ==
    scoreOut # "none" =>
      LET sevs == { findingsIn[i].severity : i \in 1..Len(findingsIn) } IN
        /\ findingsIn = <<>> => scoreOut = "SAFE"
        /\ findingsIn # <<>> =>
             /\ scoreOut \in sevs
             /\ \A s \in sevs : AtMost(s, scoreOut)
        /\ \A f \in Orderings(Len(findingsIn)) :
             AggregateSeverity([i \in 1..Len(findingsIn) |-> findingsIn[f[i]]])
               = scoreOut

\* C8 witness: three findings whose greatest severity, HIGH, comes first and
\* is followed by a CRITICAL-free tail ending in LOW
C8_Witness ==
    /\ scoreOut = "HIGH"
    /\ Len(findingsIn) = 3
    /\ findingsIn[1].severity = "HIGH"
    /\ findingsIn[2].severity = "MEDIUM"
    /\ findingsIn[3].severity = "LOW"

Throttled == Decided /\ lastRes.state = "throttled"

EscalatedFrom(cfg, action) ==
    /\ ActionRank(action) >= ActionRank(cfg)
    /\ ActionRank(action) >= ActionRank("warn")
    /\ cfg \in {"allow", "log"} => action = "warn"
    /\ cfg \in {"warn", "block", "block_notify"} => action = cfg

\* C9 (as stated): for an identity in state throttled a configured allow or
\* log is raised to warn and a configured warn, block or block_notify is
\* returned unchanged, so the action is at least warn for every severity.
C9_AsStated ==
    Throttled => EscalatedFrom(lastRes.cfg, lastRes.action)

\* C9 (amended): as stated, for every throttled identity that is not an
\* owner/override identity (a throttled owner is still allowed).
C9_ThrottledEscalates ==
    (Throttled /\ ~lastRes.owner) => EscalatedFrom(lastRes.cfg, lastRes.action)

\* C9 witness: a throttled identity, not an owner, whose configured action is
\* allow, is warned
C9_Witness ==
    /\ Throttled
    /\ ~lastRes.owner
    /\ lastRes.cfg = "allow"
    /\ lastRes.action = "warn"

HasLockout(r) == r # NoRow /\ ~NoLockout(r.lockout_until)

\* C11: a validation of a locked-out identity at a time before lockout_until
\* observes locked_out and keeps the lockout, whatever its findings; the first
\* validation at or after lockout_until clears the lockout and resets the
\* counters, the identity being normal again; no step removes or changes a
\* lockout before its expiry time.
C11_LockoutTerminal ==
    /\ []((Decided /\ HasLockout(lastRes.rlPre)) =>
            LET pre == lastRes.rlPre
                rl == GetRateLimitByUserId(rate_limits, lastRes.user)
            IN  IF lastRes.t < pre.lockout_until
                THEN /\ lastRes.state = "locked_out"
                     /\ lastRes.action = "block"
                     /\ rl.lockout_until = pre.lockout_until
                ELSE /\ NoLockout(rl.lockout_until)
                     /\ rl.window_start = lastRes.t
                     /\ rl.request_count <= 1
                     /\ rl.failed_attempts <= 1
                     /\ ~lastRes.blocklisted =>
                          /\ lastRes.state = "normal"
                          /\ rl.request_count = 1)
    /\ [][\A u \in Users :
            LET r == GetRateLimitByUserId(rate_limits, u) IN
              (HasLockout(r) /\ now < r.lockout_until) =>
                 GetRateLimitByUserId(rate_limits', u).lockout_until
                   = r.lockout_until]_vars

\* C11 witness: an identity locked out until a time that has been reached
\* sends a request with a HIGH finding and is normal again
C11_Witness ==
    /\ Decided
    /\ HasLockout(lastRes.rlPre)
    /\ lastRes.t >= lastRes.rlPre.lockout_until
    /\ lastRes.sev = "HIGH"
    /\ lastRes.state = "normal"
    /\ NoLockout(GetRateLimitByUserId(rate_limits, lastRes.user).lockout_until)

\* C12: a validation of an identity that is neither locked out nor
\* blocklisted locks it out exactly when its run of consecutive HIGH/CRITICAL
\* validations, this one included, exceeds the lockout threshold; the lockout
\* then lasts until now + the lockout duration and the window counters are
\* reset.
C12_LockoutTrips ==
    (/\ Decided
     /\ ~lastRes.blocklisted
     /\ ~(HasLockout(lastRes.rlPre) /\ lastRes.t < lastRes.rlPre.lockout_until))
    => LET pre == lastRes.rlPre
           before == IF pre = NoRow \/ HasLockout(pre) THEN 0
                     ELSE pre.failed_attempts
           run == IF lastRes.sev \in HighSeverities THEN before + 1 ELSE 0
           rl == GetRateLimitByUserId(rate_limits, lastRes.user)
       IN  IF run > LockoutThreshold
           THEN /\ lastRes.state = "locked_out"
                /\ rl.lockout_until = lastRes.t + LockoutDuration
                /\ rl.window_start = lastRes.t
                /\ rl.request_count = 0
           ELSE /\ lastRes.state # "locked_out"
                /\ NoLockout(rl.lockout_until)
                /\ rl.failed_attempts = run

\* C12 witness: an identity whose run of HIGH/CRITICAL validations stands at
\* the threshold sends one more at a time after 0 and is locked out
C12_Witness ==
    /\ Decided
    /\ lastRes.rlPre # NoRow
    /\ NoLockout(lastRes.rlPre.lockout_until)
    /\ lastRes.rlPre.failed_attempts = LockoutThreshold
    /\ lastRes.sev \in HighSeverities
    /\ lastRes.t > 0
    /\ lastRes.state = "locked_out"
    /\ GetRateLimitByUserId(rate_limits, lastRes.user).lockout_until
         = lastRes.t + LockoutDuration

BatchStarted == batchCount' = batchCount + 1

\* the tasks invoked by the step, in invocation order
NewlyStarted == SubSeq(started', Len(started) + 1, Len(started'))

\* C13: no rejection of a task escapes from the queue to a caller of enqueue
\* (nor of the timer or flush); every task of a batch is invoked when the
\* batch starts, a rejection takes only the rejecting task out of the batch in
\* flight, and once every task of a batch has settled, failed or not, the
\* batch completes and frees the queue for the next batch.
C13_FailuresContained ==
    /\ [](~propagated)
    /\ []((processing /\ inflight = {}) => ENABLED BatchComplete)
    /\ [][BatchStarted =>
            /\ NewlyStarted # <<>>
            /\ inflight' = Range(NewlyStarted)]_vars
    /\ [][failed' # failed =>
            /\ queue' = queue
            /\ started' = started
            /\ processing' = processing
            /\ \E t \in inflight : /\ failed' = failed \cup {t}
                                   /\ inflight' = inflight \ {t}]_vars

\* C13 witness: the first task of a batch of two rejected, the second one
\* fulfilled, and a later batch has been started
C13_Witness ==
    /\ batchSize = 2
    /\ failed = {1}
    /\ 2 \in finished
    /\ batchCount = 2
    /\ 3 \in Range(started)
    /\ ~propagated

\* C14: no task is started twice and a started task, failed or not, is never
\* in the queue again.
C14_AtMostOnce ==
    /\ \A i, j \in 1..Len(started) : i # j => started[i] # started[j]
    /\ Range(started) \cap Range(queue) = {}
    /\ failed \subseteq Range(started)
    /\ failed \subseteq finished

\* C14 witness: a task has failed, batches have been started after it and
\* tasks are pending
C14_Witness ==
    /\ 1 \in failed
    /\ batchCount >= 2
    /\ queue # <<>>
    /\ Len(started) >= 3

\* C15: stop() removes no pending task and the timer never runs again nor
\* starts a batch after it; a flush() called after stop() returns only when
\* every task that was pending at stop() has been started, and it does get
\* them started (tasks dropped by a later overflow apart).
C15_StopThenFlush ==
    /\ [][~timer => ~timer']_vars
    /\ [][(timer /\ ~timer') => (queue' = queue /\ stopSnap' = Range(queue))]_vars
    /\ [][(~timer /\ BatchStarted) => batchBy' # "timer"]_vars
    /\ [][(FlushReturns /\ flushAfterStop') =>
            stopSnap \subseteq (Range(started') \cup dropped')]_vars
    /\ ((flushAfterStop /\ flushPc # "idle")
          ~> (stopSnap \subseteq (Range(started) \cup dropped)))

\* the queue as the enqueue in progress leaves it before it calls processBatch
Pushed == PushDropOldest(queue, nextTask)

\* every batch is at most batchSize tasks from the head of the queue
BatchFromHead ==
    /\ [][BatchStarted =>
            LET q == IF EnqueueStep THEN Pushed ELSE queue
                k == Len(NewlyStarted)
            IN  /\ k >= 1
                /\ k <= batchSize
                /\ k <= Len(q)
                /\ NewlyStarted = SubSeq(q, 1, k)
                /\ queue' = SubSeq(q, k + 1, Len(q))]_vars
    /\ [](batchCount * batchSize >= Len(started))

TimerBatch == TimerTick /\ BatchStarted

\* C16 (as stated): the enqueue that brings the pending tasks to batchSize
\* starts a batch, and so does the timer firing on a non-empty queue; batches
\* are at most batchSize tasks from the head of the queue.
C16_AsStated ==
    /\ [][(EnqueueStep /\ Len(Pushed) >= batchSize) => BatchStarted]_vars
    /\ []((timer /\ EventLoopFree /\ queue # <<>>) => ENABLED TimerBatch)
    /\ BatchFromHead

\* C16 (amended): as stated, provided no batch is in flight; while a batch is
\* in flight neither the enqueue nor the timer starts another one, and an
\* enqueue starts a batch in no other case.
C16_BatchTriggers ==
    /\ [][EnqueueStep =>
            (BatchStarted <=> (Len(Pushed) >= batchSize /\ ~processing))]_vars
    /\ []((timer /\ EventLoopFree /\ queue # <<>>) =>
            (ENABLED TimerBatch <=> ~processing))
    /\ BatchFromHead

\* C16 witness: with a batch in flight, an enqueue has brought the pending
\* tasks to batchSize (2) without starting a batch
C16_Witness ==
    /\ batchSize = 2
    /\ processing
    /\ inflight # {}
    /\ batchCount = 1
    /\ Len(queue) = 2

\* C17: tasks are started in the order in which they were enqueued.
C17_EnqueueOrder ==
    \A i, j \in 1..Len(started) : i < j => started[i] < started[j]

\* C17 witness: four tasks started in three batches or more, one of them by
\* the timer
C17_Witness ==
    /\ Len(started) = 4
    /\ batchCount >= 3
    /\ batchBy = "timer"

InRange(x) == TrustMin <= x /\ x <= TrustMax

\* C18: in every reachable state the trust score stored for any identity
\* lies within the valid range 0..100.
C18_TrustInRange ==
    \A y \in user_reputation : InRange(y.trust_score)

\* C19: a validation whose action is block_notify enqueues a task in the
\* same step, the task being pending or started after it; under the default
\* action table a validation of a normal identity with aggregated severity
\* CRITICAL returns block_notify.
C19_NotifyEnqueued ==
    /\ [][(nreq' = nreq + 1 /\ lastRes'.action = "block_notify") =>
            /\ EnqueueStep
            /\ nextTask \in (Range(queue') \cup Range(started'))]_vars
    /\ []((/\ Decided
           /\ actions = DefaultActions
           /\ lastRes.state = "normal"
           /\ lastRes.sev = "CRITICAL") => lastRes.action = "block_notify")

\* C19 witness: under the default table the first validation of an identity,
\* with a CRITICAL finding, returned block_notify and the notification task
\* is the first task handed to the queue
C19_Witness ==
    /\ Decided
    /\ actions = DefaultActions
    /\ lastRes.state = "normal"
    /\ lastRes.sev = "CRITICAL"
    /\ lastRes.action = "block_notify"
    /\ nreq = 1
    /\ nextTask = 2
    /\ 1 \in (Range(queue) \cup Range(started))

\* C20: the dispatch call returns whichever detectors fail or are late; what
\* it returns is exactly the findings of the detectors that had completed,
\* by detector, and nothing a detector does afterwards changes it.
C20_SoftFailures ==
    /\ [](callState = "running" => ENABLED DispatchReturns)
    /\ [][(callState = "running" /\ callState' = "returned") =>
            /\ \A i \in 1..Len(collected') :
                 /\ det[collected'[i].module].status = "done"
                 /\ collected'[i] \in Range(det[collected'[i].module].findings)
            /\ \A d \in Detectors :
                 det[d].status = "done" =>
                    Range(det[d].findings) \subseteq Range(collected')
            /\ \A i, j \in 1..Len(collected') :
                 i < j => collected'[i].module < collected'[j].module
            /\ \A d \in Detectors :
                 det[d].status # "done" => det'[d].status # "done"]_vars
    /\ [][callState = "returned" =>
            (callState' = "returned" /\ collected' = collected)]_vars

\* C20 witness: the call returned the finding of detector 1 alone, detector 2
\* having failed after it produced a finding and detector 3 having finished
\* late with a finding
C20_Witness ==
    /\ callState = "returned"
    /\ collected = <<FindingOf(1)>>
    /\ det[2].status = "failed"
    /\ det[2].findings # <<>>
    /\ det[3].status = "late"
    /\ det[3].findings # <<>>

\* C21: whatever a call returns was built by the scans that call started: no
\* finding of an earlier call's scan, and no finding of a scan the call
\* abandoned, is part of it; and a scan finishing late leaves the returned
\* result as it was.
C21_NoLateResults ==
    /\ [](callState = "returned" =>
            /\ \A i \in 1..Len(collected) : collected[i].call = callNo
            /\ \A f \in arrivedLate :
                 Produced(f.module, f.call) \notin Range(collected)
            /\ \A d \in Detectors :
                 det[d].status \in {"abandoned", "late"} =>
                    FindingOf(d) \notin Range(collected))
    /\ [][(callState = "returned" /\ callNo' = callNo) =>
            collected' = collected]_vars

\* C21 witness: detector 1 was abandoned by the first call; its finding
\* arrived while the second call was current, and the second call returned
\* the finding of its own scan of detector 1 and nothing else
C21_Witness ==
    /\ callNo = 2
    /\ callState = "returned"
    /\ [module |-> 1, call |-> 1, during |-> 2] \in arrivedLate
    /\ collected = <<Produced(1, 2)>>

\* C22: a detector never raises: the promise its scan returns is fulfilled for
\* every input, and with an empty findings list when the input is not a
\* string or is the empty string.
C22_NeverRaises ==
    scanModule # "none" =>
        /\ scanResult.state = "fulfilled"
        /\ (scanInput.type # "string" \/ scanInput.text = <<>>) =>
              scanResult.findings = <<>>

\* C23: a configuration that validateConfig or load accepted maps every
\* severity to a valid action and has a valid sensitivity (so one that does
\* not is rejected).
C23_AcceptedIsTotal ==
    cfgOutcome = "accepted" =>
        /\ cfgResult.sensitivity \in ValidSensitivities
        /\ \A sev \in Range(Severities) :
             /\ sev \in DOMAIN cfgResult.actions.entries
             /\ cfgResult.actions.entries[sev] \in Range(Actions)

InsertStep == opNo' = opNo + 1 /\ lastOp'.op = "insertEvent"

DeleteStep == opNo' = opNo + 1 /\ lastOp'.op = "deleteOldEvents"

\* C24: insertEvent(e) returns an id above 0 that no earlier insertEvent
\* returned; getEventById of it gives a row with the values of e; the rows
\* stored before are still there, unchanged.
C24_InsertThenGet ==
    [][InsertStep =>
         /\ ~lastOp'.threw
         /\ lastOp'.ret > 0
         /\ lastOp'.ret \notin issued
         /\ GetEventById(security_events', lastOp'.ret) # NoRow
         /\ EventFields(GetEventById(security_events', lastOp'.ret))
              = lastOp'.event
         /\ \A r \in security_events :
              GetEventById(security_events', r.id) = r
         /\ Cardinality(security_events') = Cardinality(security_events) + 1
       ]_vars

\* C24 witness: an event was inserted after the only stored event had been
\* deleted; it got the id 2, and getEventById(2) gives its values
C24_Witness ==
    /\ lastOp.op = "insertEvent"
    /\ issued = {1, 2}
    /\ lastOp.ret = 2
    /\ Ids(security_events) = {2}
    /\ EventFields(GetEventById(security_events, 2)) = lastOp.event

\* C25: deleteOldEvents(d) removes exactly the events with a timestamp before
\* now - d and returns how many they are; all other events and the rows of
\* the other tables stay as they were.
C25_DeletesExactlyOld ==
    [][DeleteStep =>
         /\ ~lastOp'.threw
         /\ security_events' =
              security_events \ OlderThan(security_events, lastOp'.days)
         /\ lastOp'.ret = Cardinality(OlderThan(security_events, lastOp'.days))
         /\ UNCHANGED <<notifications_log, rate_limits, user_reputation>>
       ]_vars

\* C30: every notifications_log row points at a stored security event.
C30_LogsPointAtEvents ==
    \A n \in notifications_log : n.event_id \in Ids(security_events)

\* C30 witness: deleteOldEvents was called when the event of a notification
\* log was older than the cutoff; the log and its event are both stored
C30_Witness ==
    /\ lastOp.op = "deleteOldEvents"
    /\ \E n \in notifications_log :
         \E r \in OlderThan(security_events, lastOp.days) : n.event_id = r.id

\* tasks that were invoked and whose promises have not settled
Running == inflight \cup orphans

\* C26: at most one batch is in flight: processBatch starts no batch while a
\* task of an earlier batch is unsettled, whoever calls it, so at most
\* batchSize tasks of the queue run at once.
C26_OneBatchInFlight ==
    /\ [][BatchStarted => Running = {}]_vars
    /\ [](Cardinality(Running) <= batchSize)

\* C27: the queue never gets stuck: once a batch has been started the
\* processing flag returns to false, however the batch ends (its tasks fulfil
\* or reject, a task throws when invoked, onBatch throws).
C27_FlagReturns == processing ~> ~processing

\* C28: while the timer runs and every invoked task settles, each task that
\* is pending is in the end executed unless overflow drops it, without any
\* flush() or further enqueue; a task enqueued while a batch was in flight
\* is no exception.
C28_TimerDrains ==
    \A t \in 1..MaxTasks :
        t \in Range(queue) ~> (t \in Range(started) \/ t \in dropped \/ ~timer)

\* the tasks enqueued so far
Enqueued == 1..(nextTask - 1)

\* the four places the statement gives a task
PlacesOf(t) ==
    { place \in {"pending", "in flight", "finished", "dropped"} :
        \/ place = "pending" /\ t \in Range(queue)
        \/ place = "in flight" /\ t \in inflight
        \/ place = "finished" /\ t \in finished
        \/ place = "dropped" /\ t \in dropped }

\* C29: no task is lost except by overflow: each task enqueued so far is
\* exactly one of pending, in flight in the current batch, finished or
\* dropped by overflow, and each task processBatch takes off the queue is
\* started.
C29_NoTaskLost ==
    /\ [](\A t \in Enqueued : Cardinality(PlacesOf(t)) = 1)
    /\ [][BatchStarted =>
            (Range(queue) \ Range(queue')) \ dropped' \subseteq Range(started')]_vars

====
